---- MODULE Spec2Model ----
(***************************************************************************)
(* QCN congestion point inside a Token Bucket Filter queueing discipline   *)
(* (sch_tbf_switch.c) over a byte FIFO inner queue (sch_fifo_switch.c).    *)
(*                                                                         *)
(* The kernel helpers the two files call (qdisc_enqueue_tail,              *)
(* qdisc_peek_head, qdisc_dequeue_peeked, qdisc_queue_drop, qdisc_reset,   *)
(* qdisc_reshape_fail, qdisc_l2t, psched_tdiff_bounded, kfifo_put/get,     *)
(* up/down_timeout) are modelled by what Linux 2.6.37 makes them do, at    *)
(* the place where the source calls them.                                  *)
(***************************************************************************)
EXTENDS Integers, Sequences, FiniteSets, TLC

(***************************************************************************)
(* Program constants                                                       *)
(***************************************************************************)
QCN_Q_EQ == 33792
QCN_W == 2
FIFO_QCN_Q_EQ == 34000
FIFO_QCN_W == 2
FRAME_KFIFO_SIZE == 32

(***************************************************************************)
(* Bounds of the model                                                     *)
(***************************************************************************)
MaxEnq == 3        \* calls of tbf_enqueue in one behaviour
MaxAux == 3        \* calls of tbf_dequeue, tbf_drop, tbf_reset, tbf_change and clock advances
MaxOps == 5        \* calls of either kind in one behaviour of the whole scheduler
BurstLen == 104    \* admissions of the 1500-byte burst
MaxQcn == 2        \* applications of the QCN computation from a grid state
MaxShape == 4      \* dequeues, resets, changes and clock advances of the shaper
MaxShapeEnq == 2   \* packets offered to the shaper
IdleGap == 200     \* an idle period longer than either bucket takes to fill
MaxPfifo == 6      \* packets offered to the head-drop packet FIFO
RingLen == 100     \* 60000-byte packets offered while the feedback ring fills
MaxSent == 2       \* frames the sender thread gets onto the wire meanwhile
MaxStop == 6       \* packets offered before tbf_destroy
MaxSem == 6        \* packets offered while the admission path and the sender interleave
MaxLife == 4       \* packets offered between tbf_init and tbf_destroy

(***************************************************************************)
(* Fixed-width arithmetic.  A u32 is held as the integer congruent to it   *)
(* modulo 2^32 that lies in -2^31 .. 2^31 - 1 (its bit pattern read as an  *)
(* int), so that 0 - 1 on an unsigned counter is the pattern 0xFFFFFFFF,   *)
(* held as -1.  The model's sums stay far inside that range.               *)
(***************************************************************************)
\* the unsigned comparison a <= b of two 32-bit patterns
u_le(a, b) == IF (a < 0) = (b < 0) THEN a <= b ELSE b < 0

\* ((u32) x) >> n
ushr(x, n) == IF x >= 0 THEN x \div (2 ^ n) ELSE (2 ^ (32 - n)) + (x \div (2 ^ n))

\* x << n, for the small values tbf_change shifts
shl(x, n) == x * (2 ^ n)

\* htonl on the little-endian x86 host the module is built for (asm/msr.h):
\* the four bytes the 32-bit field then holds in memory, first byte first.
htonl(x) ==
    << (x \div 16777216) % 256, (x \div 65536) % 256, (x \div 256) % 256, x % 256 >>

\* the signed 32-bit value a receiver reads from four bytes in network order
ntohl(b) ==
    ((IF b[1] >= 128 THEN b[1] - 256 ELSE b[1]) * 16777216)
    + (b[2] * 65536) + (b[3] * 256) + b[4]

Min(a, b) == IF a < b THEN a ELSE b
Max(a, b) == IF a > b THEN a ELSE b

RECURSIVE SumLen(_)
SumLen(s) == IF s = << >> THEN 0 ELSE Head(s).len + SumLen(Tail(s))

Ids(s) == { s[i].id : i \in 1..Len(s) }
Range(s) == { s[i] : i \in 1..Len(s) }

(***************************************************************************)
(* Packets and configurations offered to the scheduler                     *)
(***************************************************************************)
\* qdisc_pkt_len values: an MTU-sized frame, a GSO super-packet that fits
\* max_size, and one that exceeds it
PktLens == {1500, 60000, 70000}

\* the packets offered: (length, IPv4 or not)
PktKinds == {<<1500, TRUE>>, <<60000, TRUE>>, <<60000, FALSE>>, <<70000, TRUE>>}

mkskb(id, len, ip) ==
    [id |-> id, len |-> len, ip |-> ip, saddr |-> 167772160 + id, daddr |-> 167772416 + id]

NoTab == [rate |-> 0, cell_log |-> 0, unit |-> 0]

\* struct tc_tbf_qopt plus the two rate tables, as the control plane sends them.
\* A table is summarised by its rate, its cell_log and the time cost of one
\* cell: data[n] = (n + 1) * unit, which is how tc fills the 256 entries.
CfgRate ==
    [parms |-> TRUE, limit |-> 61500, buffer |-> 32, mtu |-> 0,
     rate |-> [rate |-> 1000, cell_log |-> 11, unit |-> 1], rtab |-> TRUE,
     peakrate |-> NoTab, ptab |-> FALSE]
\* CfgRate with room in the inner queue for the whole burst of section 8
CfgBurst == [CfgRate EXCEPT !.limit = 200000]
\* a rate of 500 with a bucket of 128 under a peak rate of 1000 with a bucket
\* of 31: a 60000-byte packet costs 60 of the one and 30 of the other
CfgShape ==
    [parms |-> TRUE, limit |-> 130000, buffer |-> 128, mtu |-> 31,
     rate |-> [rate |-> 500, cell_log |-> 11, unit |-> 2], rtab |-> TRUE,
     peakrate |-> [rate |-> 1000, cell_log |-> 11, unit |-> 1], ptab |-> TRUE]
CfgPeak ==
    [parms |-> TRUE, limit |-> 3000, buffer |-> 64, mtu |-> 31,
     rate |-> [rate |-> 500, cell_log |-> 11, unit |-> 2], rtab |-> TRUE,
     peakrate |-> [rate |-> 1000, cell_log |-> 11, unit |-> 1], ptab |-> TRUE]
CfgKeep == [CfgRate EXCEPT !.limit = 0, !.buffer = 31]
CfgNoParms == [CfgRate EXCEPT !.parms = FALSE]
CfgNoRtab == [CfgRate EXCEPT !.rtab = FALSE]
CfgSlowPeak == [CfgPeak EXCEPT !.peakrate = [rate |-> 500, cell_log |-> 11, unit |-> 2]]
CfgTiny == [CfgRate EXCEPT !.buffer = 0]
Configs == {CfgRate, CfgPeak, CfgKeep, CfgNoParms, CfgNoRtab, CfgSlowPeak, CfgTiny}

VARIABLES
    q,            \* struct tbf_sched_data: parameters, buckets, QCN variables
    sch,          \* the TBF's struct Qdisc: q.qlen, bstats, qstats, flags, watchdog
    child,        \* q->qdisc, the inner byte FIFO with its fifo_sched_data
    frame_fifo,   \* q->th.frame_fifo, the kfifo of pending feedback frames
    sem,          \* q->th.sem_frame_fifo, the semaphore's count
    sent,         \* frames handed to a transport, in order
    now,          \* psched_get_time()
    hist,         \* what happened to each packet handle, for the claims
    op,           \* the last operation: its name, arguments, locals and result
    cnt,          \* how many times each operation ran (bounds the model)
    th            \* q->th.tsk: the sender thread's position, its stop flag, tbf_destroy's
                  \* progress, and where a tbf_enqueue that runs beside the thread stands

vars == <<q, sch, child, frame_fifo, sem, sent, now, hist, op, cnt, th>>

(***************************************************************************)
(* sch_fifo_switch.c                                                       *)
(***************************************************************************)
\* qcn_init
qcn_init(c) ==
    [c EXCEPT !.qcn_qlen = 0, !.qcn_qlen_old = 0, !.sample = 153600,
              !.generate_fb_frame = 0]

\* qcn_mark_table
qcn_mark_table(qntz_Fb) ==
    CASE ushr(qntz_Fb, 3) = 0 -> 153600
      [] ushr(qntz_Fb, 3) = 1 -> 76800
      [] ushr(qntz_Fb, 3) = 2 -> 51200
      [] ushr(qntz_Fb, 3) = 3 -> 38400
      [] ushr(qntz_Fb, 3) = 4 -> 30720
      [] ushr(qntz_Fb, 3) = 5 -> 25600
      [] ushr(qntz_Fb, 3) = 6 -> 22016
      [] ushr(qntz_Fb, 3) = 7 -> 18944
      [] OTHER -> 153600

\* fifo_create_dflt: qdisc_create_dflt, then fifo_init through fifo_set_limit
fifo_create_dflt(limit) ==
    qcn_init([skbs |-> << >>, backlog |-> 0, bytes |-> 0, packets |-> 0,
              drops |-> 0, limit |-> limit,
              qcn_qlen |-> 0, qcn_qlen_old |-> 0, sample |-> 0,
              generate_fb_frame |-> 0])

\* The values a read of qdisc_pkt_len(skb) can give.  A handle that tbf_dequeue
\* already returned belongs to the caller, who frees it after transmission;
\* reading it through the queue's stale link is a use after free, and gives
\* either the old length or whatever the memory holds by then.
qdisc_pkt_len(skb) ==
    IF skb.id \in Range(hist.out) THEN PktLens ELSE {skb.len}

\* bfifo_enqueue: [child, ret]
bfifo_enqueue(c, skb) ==
    IF u_le(c.backlog + skb.len, c.limit)
    THEN [child |-> [c EXCEPT !.skbs = Append(@, skb),
                              !.backlog = @ + skb.len,
                              !.bytes = @ + skb.len,
                              !.packets = @ + 1],
          ret |-> "NET_XMIT_SUCCESS"]
    ELSE [child |-> [c EXCEPT !.drops = @ + 1], ret |-> "NET_XMIT_DROP"]

\* qdisc_queue_drop on the inner queue: the tail is unlinked, the length read
\* from it leaves the backlog, the handle goes to kfree_skb
qdisc_queue_drop(c, len) ==
    [c EXCEPT !.skbs = SubSeq(@, 1, Len(@) - 1), !.backlog = @ - len]

\* bfifo_drop, for the length len that qdisc_queue_drop read (0: queue empty)
bfifo_drop(c, len) ==
    IF len # 0
    THEN [qdisc_queue_drop(c, len) EXCEPT !.qcn_qlen = @ - len]
    ELSE c

\* bfifo_dequeue, for the length len read from the head: qdisc_peek_head leaves
\* the head linked, only the FIFO's own qcn_qlen changes
bfifo_dequeue(c, len) ==
    IF c.skbs # << >>
    THEN [child |-> [c EXCEPT !.qcn_qlen = @ - len], skb |-> Head(c.skbs)]
    ELSE [child |-> c, skb |-> [id |-> 0]]

\* bfifo_reset_queue, called by qdisc_reset: qcn_init, then the list is purged
bfifo_reset_queue(c) ==
    [qcn_init(c) EXCEPT !.skbs = << >>, !.backlog = 0]

\* Fb with the lower saturation left out
fifo_Fb_unsaturated(qlen, qlen_old) ==
    LET Fb == (FIFO_QCN_Q_EQ - qlen) - (FIFO_QCN_W * (qlen - qlen_old))
    IN  IF Fb > 0 THEN 0 ELSE Fb

\* Fb as qcn_algorithm computes and saturates it from the updated qcn_qlen
fifo_Fb(qlen, qlen_old) ==
    LET Fb == (FIFO_QCN_Q_EQ - qlen) - (FIFO_QCN_W * (qlen - qlen_old))
    IN  IF Fb < (-FIFO_QCN_Q_EQ) * ((2 * FIFO_QCN_W) + 1)
        THEN (-FIFO_QCN_Q_EQ) * ((2 * FIFO_QCN_W) + 1)
        ELSE IF Fb > 0 THEN 0 ELSE Fb

\* qntz_Fb = 0x3F & (((u32) -Fb) >> 13)
fifo_qntz_Fb(Fb) == ushr(-Fb, 13) % 64

\* struct qcn_frame as qcn_algorithm fills it
fifo_frame(skb, qntz_Fb, qlen, qlen_old) ==
    [DA |-> skb.daddr, SA |-> skb.saddr, Fb |-> htonl(qntz_Fb),
     qoff |-> htonl(FIFO_QCN_Q_EQ - qlen), qdelta |-> htonl(qlen - qlen_old)]

\* qcn_algorithm on the FIFO's own QCN state.  Its only call, in bfifo_enqueue,
\* is commented out, so no operation of the scheduler reaches it; xmit_ok says
\* whether qcnskb_create and dev_queue_xmit both succeeded.
qcn_algorithm(skb, xmit_ok) ==
    LET len == skb.len
        qlen1 == child.qcn_qlen + len
        Fb == fifo_Fb(qlen1, child.qcn_qlen_old)
        qntz_Fb == fifo_qntz_Fb(Fb)
        sample1 == child.sample - len
        sampled == sample1 < 0
        gen1 == IF sampled /\ qntz_Fb > 0 THEN 1 ELSE child.generate_fb_frame
        qlen_old1 == IF sampled THEN qlen1 ELSE child.qcn_qlen_old
        sample2 == IF sampled THEN qcn_mark_table(qntz_Fb) ELSE sample1
        emit == gen1 # 0 /\ skb.ip
    IN
    /\ cnt' = [cnt EXCEPT !.burst = @ + 1]
    /\ child' = [child EXCEPT !.qcn_qlen = qlen1, !.qcn_qlen_old = qlen_old1,
                              !.sample = sample2,
                              !.generate_fb_frame = IF emit /\ xmit_ok THEN 0 ELSE gen1]
    /\ sent' = IF emit /\ xmit_ok
               THEN Append(sent, fifo_frame(skb, qntz_Fb, qlen1, qlen_old1))
               ELSE sent
    /\ op' = [name |-> "qcn_algorithm", ret |-> "void", id |-> skb.id, len |-> len,
              ip |-> skb.ip, Fb |-> Fb, qntz_Fb |-> qntz_Fb, sampled |-> sampled,
              generate |-> gen1 # 0,
              put |-> IF emit /\ xmit_ok THEN "ok" ELSE IF emit THEN "full" ELSE "none",
              toks |-> 0, ptoks |-> 0]
    /\ UNCHANGED <<th, q, sch, frame_fifo, sem, now, hist>>

\* the tail unlinked instead of the head
qdisc_dequeue_tail(c) ==
    IF c.skbs = << >> THEN [child |-> c, skb |-> [id |-> 0, len |-> 0]]
    ELSE [child |-> [c EXCEPT !.skbs = SubSeq(@, 1, Len(@) - 1),
                              !.backlog = @ - c.skbs[Len(c.skbs)].len],
          skb |-> c.skbs[Len(c.skbs)]]

\* qdisc_dequeue_head, the .dequeue of the packet FIFOs and the eviction of
\* pfifo_tail_enqueue: the head is unlinked and its length leaves the backlog
qdisc_dequeue_head(c) ==
    IF c.skbs = << >> THEN [child |-> c, skb |-> [id |-> 0, len |-> 0]]
    ELSE [child |-> [c EXCEPT !.skbs = Tail(@), !.backlog = @ - Head(c.skbs).len],
          skb |-> Head(c.skbs)]

\* qdisc_enqueue_tail
qdisc_enqueue_tail(c, skb) ==
    [c EXCEPT !.skbs = Append(@, skb), !.backlog = @ + skb.len,
              !.bytes = @ + skb.len, !.packets = @ + 1]

\* pfifo_tail_enqueue on a queue whose limit is at least 1: [child, ret, old]
pfifo_tail_enqueue(c, skb) ==
    IF Len(c.skbs) < c.limit
    THEN [child |-> qdisc_enqueue_tail(c, skb), ret |-> "NET_XMIT_SUCCESS", old |-> 0]
    ELSE LET r == qdisc_dequeue_head(c)
             c1 == [r.child EXCEPT !.bytes = @ - r.skb.len, !.packets = @ - 1,
                                   !.drops = @ + 1]
         IN  [child |-> qdisc_enqueue_tail(c1, skb), ret |-> "NET_XMIT_CN",
              old |-> r.skb.id]

\* qdisc_reset_queue, the .reset of the packet FIFOs
qdisc_reset_queue(c) == [c EXCEPT !.skbs = << >>, !.backlog = 0]

(***************************************************************************)
(* sch_tbf_switch.c                                                        *)
(***************************************************************************)
\* rtab->data[n] of a table the control plane sent
rtab_data(tab, n) == (n + 1) * tab.unit

\* qdisc_l2t behind the L2T and L2T_P macros
L2T(tab, len) ==
    LET slot == len \div (2 ^ tab.cell_log)
    IN  IF slot > 255
        THEN (rtab_data(tab, 255) * (slot \div 256)) + rtab_data(tab, slot % 256)
        ELSE rtab_data(tab, slot)

\* for (n = 0; n < 256; n++) if (tab->data[n] > depth) break;
first_over(tab, depth) ==
    IF \E n \in 0..255 : rtab_data(tab, n) > depth
    THEN CHOOSE n \in 0..255 :
            /\ rtab_data(tab, n) > depth
            /\ \A m \in 0..(n - 1) : rtab_data(tab, m) <= depth
    ELSE 256

\* max_size as tbf_change derives it from the two tables
tbf_max_size(cfg) ==
    LET rsize == shl(first_over(cfg.rate, cfg.buffer), cfg.rate.cell_log) - 1
        psize == shl(first_over(cfg.peakrate, cfg.mtu), cfg.peakrate.cell_log) - 1
    IN  IF cfg.ptab /\ cfg.peakrate.rate > cfg.rate.rate /\ psize < rsize
        THEN psize ELSE rsize

\* the checks of tbf_change that end in "goto done" with err = -EINVAL
tbf_change_valid(cfg) ==
    /\ cfg.parms
    /\ cfg.rtab
    /\ (cfg.peakrate.rate # 0 => (cfg.peakrate.rate > cfg.rate.rate /\ cfg.ptab))
    /\ tbf_max_size(cfg) >= 0

HasPeak(cfg) == cfg.peakrate.rate # 0

OpRec(name, ret, skb, len) ==
    [name |-> name, ret |-> ret, id |-> skb.id, len |-> len, ip |-> skb.ip,
     Fb |-> 0, qntz_Fb |-> 0, sampled |-> FALSE, generate |-> FALSE, put |-> "none",
     toks |-> 0, ptoks |-> 0]

NoSkb == [id |-> 0, len |-> 0, ip |-> FALSE, saddr |-> 0, daddr |-> 0]

\* the max_size test left out
tbf_oversize_unchecked(len) == FALSE

\* tbf_enqueue's first test: len > q->max_size, both unsigned
tbf_oversize(len) == ~u_le(len, q.max_size)

\* Fb with the lower saturation left out
tbf_Fb_unsaturated(qlen, qlen_old) ==
    LET Fb == (QCN_Q_EQ - qlen) - (QCN_W * (qlen - qlen_old))
    IN  IF Fb > 0 THEN 0 ELSE Fb

\* Fb as tbf_enqueue computes and saturates it from the updated qlen
tbf_Fb(qlen, qlen_old) ==
    LET Fb == (QCN_Q_EQ - qlen) - (QCN_W * (qlen - qlen_old))
    IN  IF Fb < (-QCN_Q_EQ) * ((2 * QCN_W) + 1)
        THEN (-QCN_Q_EQ) * ((2 * QCN_W) + 1)
        ELSE IF Fb > 0 THEN 0 ELSE Fb

\* the quantization shifted by one bit too few
tbf_qntz_Fb_shift12(Fb) == ushr(-Fb, 12)

\* qntz_Fb = ((u32) -Fb) >> 13, with no mask in tbf_enqueue
tbf_qntz_Fb(Fb) == ushr(-Fb, 13)

\* the sample credit tbf_enqueue sets at a sampling instant
tbf_sample_refresh(qntz_Fb) == 153600

\* struct qcn_frame as tbf_enqueue fills it
tbf_frame(skb, qntz_Fb, qlen, qlen_old) ==
    [DA |-> skb.daddr, SA |-> skb.saddr, Fb |-> htonl(qntz_Fb),
     qoff |-> htonl(QCN_Q_EQ - qlen), qdelta |-> htonl(qlen - qlen_old)]

\* tbf_enqueue
tbf_enqueue(skb) ==
    LET len == skb.len
        qlen1 == q.qlen + len
        Fb == tbf_Fb(qlen1, q.qlen_old)
        qntz_Fb == tbf_qntz_Fb(Fb)
        sample1 == q.sample - len
        sampled == sample1 < 0
        generate == sampled /\ qntz_Fb > 0
        qlen_old1 == IF sampled THEN qlen1 ELSE q.qlen_old
        sample2 == IF sampled THEN tbf_sample_refresh(qntz_Fb) ELSE sample1
        emit == generate /\ skb.ip
        put == emit /\ Len(frame_fifo) < FRAME_KFIFO_SIZE
        r == bfifo_enqueue(child, skb)
    IN
    /\ cnt' = [cnt EXCEPT !.enq = @ + 1]
    /\ IF tbf_oversize(len)
       THEN \* qdisc_reshape_fail(skb, sch)
            /\ sch' = [sch EXCEPT !.drops = @ + 1]
            /\ op' = OpRec("tbf_enqueue", "NET_XMIT_DROP", skb, len)
            /\ UNCHANGED <<q, child, frame_fifo, sem, hist>>
       ELSE /\ q' = [q EXCEPT !.qlen = qlen1, !.qlen_old = qlen_old1, !.sample = sample2]
            /\ frame_fifo' = IF put
                             THEN Append(frame_fifo, tbf_frame(skb, qntz_Fb, qlen1, qlen_old1))
                             ELSE frame_fifo
            /\ sem' = IF put THEN sem + 1 ELSE sem
            /\ child' = r.child
            /\ IF r.ret # "NET_XMIT_SUCCESS"
               THEN /\ sch' = [sch EXCEPT !.drops = @ + 1]
                    /\ UNCHANGED hist
               ELSE /\ sch' = [sch EXCEPT !.qlen = @ + 1, !.bytes = @ + len,
                                          !.packets = @ + 1]
                    /\ hist' = [hist EXCEPT !.admitted = Append(@, skb.id)]
            /\ op' = [OpRec("tbf_enqueue", r.ret, skb, len) EXCEPT
                        !.Fb = Fb, !.qntz_Fb = qntz_Fb, !.sampled = sampled,
                        !.generate = generate,
                        !.put = IF put THEN "ok" ELSE IF emit THEN "full" ELSE "none"]
    /\ UNCHANGED <<th, sent, now>>

\* tbf_drop
tbf_drop ==
    /\ cnt' = [cnt EXCEPT !.aux = @ + 1]
    /\ IF child.skbs = << >>
       THEN /\ op' = OpRec("tbf_drop", "0", NoSkb, 0)
            /\ UNCHANGED <<child, sch, hist>>
       ELSE LET skb == child.skbs[Len(child.skbs)]
            IN  \E len \in qdisc_pkt_len(skb) :
                  /\ child' = bfifo_drop(child, len)
                  /\ sch' = [sch EXCEPT !.qlen = @ - 1, !.drops = @ + 1]
                  /\ hist' = [hist EXCEPT !.dropped = @ \cup {skb.id}]
                  /\ op' = OpRec("tbf_drop", "len", skb, len)
    /\ UNCHANGED <<th, q, frame_fifo, sem, sent, now>>

\* toks without the cap at the bucket's depth
tbf_toks_uncapped(len) ==
    Min(now - q.t_c, q.buffer) + q.tokens - L2T(q.R_tab, len)

\* toks and ptoks as tbf_dequeue computes them for a head packet of length len
tbf_toks(len) ==
    LET t == Min(now - q.t_c, q.buffer) IN Min(t + q.tokens, q.buffer) - L2T(q.R_tab, len)

tbf_ptoks(len) ==
    LET t == Min(now - q.t_c, q.buffer)
    IN  IF q.P_tab # NoTab
        THEN Min(t + q.ptokens, q.mtu) - L2T(q.P_tab, len)
        ELSE 0

\* the grant decided on the rate bucket alone
tbf_grant_rate_only(toks, ptoks) == toks >= 0

\* (toks|ptoks) >= 0: the sign bit of the OR is clear when both are clear
tbf_grant(toks, ptoks) == toks >= 0 /\ ptoks >= 0

\* the watchdog armed to fire at once
tbf_watchdog_at_now(toks, ptoks) == now

\* the expiry tbf_dequeue arms the watchdog for: now + max_t(long, -toks, -ptoks)
tbf_watchdog_expires(toks, ptoks) == now + Max(-toks, -ptoks)

\* tbf_dequeue
tbf_dequeue ==
    /\ cnt' = [cnt EXCEPT !.aux = @ + 1]
    /\ IF child.skbs = << >>
       THEN /\ op' = OpRec("tbf_dequeue", "NULL", NoSkb, 0)
            /\ UNCHANGED <<q, sch, child, hist>>
       ELSE LET skb == Head(child.skbs)
            IN  \E len \in qdisc_pkt_len(skb), len2 \in qdisc_pkt_len(skb) :
                  LET toks == tbf_toks(len)
                      ptoks == tbf_ptoks(len)
                      r == bfifo_dequeue(child, len2)
                  IN  IF tbf_grant(toks, ptoks)
                      THEN \* qdisc_dequeue_peeked: the child has no gso_skb,
                           \* so this is the child's own dequeue
                           /\ child' = r.child
                           /\ q' = [q EXCEPT !.t_c = now, !.tokens = toks,
                                             !.ptokens = ptoks, !.qlen = @ - len]
                           /\ sch' = [sch EXCEPT !.qlen = @ - 1, !.throttled = FALSE]
                           /\ hist' = [hist EXCEPT !.out = Append(@, r.skb.id)]
                           /\ op' = [OpRec("tbf_dequeue", "skb", r.skb, len) EXCEPT
                                       !.toks = toks, !.ptoks = ptoks]
                      ELSE \* qdisc_watchdog_schedule, then overlimits++
                           /\ sch' = [sch EXCEPT !.throttled = TRUE,
                                                 !.watchdog = tbf_watchdog_expires(toks, ptoks),
                                                 !.overlimits = @ + 1]
                           /\ op' = [OpRec("tbf_dequeue", "NULL", skb, len) EXCEPT
                                       !.toks = toks, !.ptoks = ptoks]
                           /\ UNCHANGED <<q, child, hist>>
    /\ UNCHANGED <<th, frame_fifo, sem, sent, now>>

\* tbf_reset
tbf_reset ==
    /\ cnt' = [cnt EXCEPT !.aux = @ + 1]
    /\ child' = bfifo_reset_queue(child)
    /\ sch' = [sch EXCEPT !.qlen = 0, !.throttled = FALSE, !.watchdog = -1]
    /\ q' = [q EXCEPT !.t_c = now, !.tokens = q.buffer, !.ptokens = q.mtu]
    /\ hist' = [hist EXCEPT !.dropped = @ \cup Ids(child.skbs)]
    /\ op' = OpRec("tbf_reset", "void", NoSkb, 0)
    /\ UNCHANGED <<th, frame_fifo, sem, sent, now>>

\* tbf_change
tbf_change(cfg) ==
    /\ cnt' = [cnt EXCEPT !.aux = @ + 1]
    /\ IF ~tbf_change_valid(cfg)
       THEN /\ op' = OpRec("tbf_change", "-EINVAL", NoSkb, 0)
            /\ UNCHANGED <<q, sch, child, hist>>
       ELSE /\ IF cfg.limit > 0
               THEN \* qdisc_tree_decrease_qlen, qdisc_destroy, q->qdisc = child
                    /\ sch' = [sch EXCEPT !.qlen = @ - Len(child.skbs)]
                    /\ child' = fifo_create_dflt(cfg.limit)
                    /\ hist' = [hist EXCEPT !.dropped = @ \cup Ids(child.skbs)]
               ELSE UNCHANGED <<sch, child, hist>>
            /\ q' = [q EXCEPT !.limit = cfg.limit, !.mtu = cfg.mtu,
                              !.max_size = tbf_max_size(cfg), !.buffer = cfg.buffer,
                              !.tokens = cfg.buffer, !.ptokens = cfg.mtu,
                              !.R_tab = cfg.rate,
                              !.P_tab = IF HasPeak(cfg) THEN cfg.peakrate ELSE NoTab]
            /\ op' = OpRec("tbf_change", "0", NoSkb, 0)
    /\ UNCHANGED <<th, frame_fifo, sem, sent, now>>

\* psched_get_time advances: by one unit, or up to the armed watchdog's expiry
Tick ==
    /\ cnt' = [cnt EXCEPT !.aux = @ + 1]
    /\ \E dt \in {1} \cup (IF sch.watchdog > now THEN {sch.watchdog - now} ELSE {}) :
          now' = now + dt
    /\ op' = OpRec("tick", "void", NoSkb, 0)
    /\ UNCHANGED <<th, q, sch, child, frame_fifo, sem, sent, hist>>

\* qdisc_watchdog, the timer callback qdisc_watchdog_schedule armed: it clears
\* TCQ_F_THROTTLED and has the host scheduler call tbf_dequeue again
qdisc_watchdog ==
    /\ sch.watchdog >= 0
    /\ sch.watchdog <= now
    /\ sch' = [sch EXCEPT !.throttled = FALSE, !.watchdog = -1]
    /\ op' = OpRec("qdisc_watchdog", "void", NoSkb, 0)
    /\ UNCHANGED <<th, q, child, frame_fifo, sem, sent, now, hist, cnt>>

\* the body of qcn_feedback_sender's loop when down_timeout returned 0:
\* kfifo_get, then qcn_send_fb, which the transport may refuse
qcn_send_turn ==
    /\ sem > 0
    /\ sem' = sem - 1
    /\ IF frame_fifo = << >>
       THEN /\ op' = OpRec("qcn_feedback_sender", "err kfifo", NoSkb, 0)
            /\ UNCHANGED <<frame_fifo, sent>>
       ELSE /\ frame_fifo' = Tail(frame_fifo)
            /\ \E ok \in BOOLEAN :
                  /\ sent' = IF ok THEN Append(sent, Head(frame_fifo)) ELSE sent
                  /\ op' = OpRec("qcn_feedback_sender",
                                 IF ok THEN "fb sent" ELSE "err sending", NoSkb, 0)
    /\ UNCHANGED <<q, sch, child, now, hist, cnt>>

\* one turn of qcn_feedback_sender's loop in which down_timeout returned 0,
\* the thread being back in down_timeout afterwards
qcn_feedback_sender == qcn_send_turn /\ UNCHANGED th

\* a wait on the semaphore that no timeout ends
down_waits_forever == FALSE

\* down_timeout(&th->sem_frame_fifo, HZ) returns -ETIME once HZ jiffies have
\* passed without the semaphore being raised
down_timeout_expires == TRUE

\* while (!kthread_should_stop()): into down_timeout, or out of the loop
th_while ==
    /\ th.pc = "while"
    /\ th' = [th EXCEPT !.pc = IF th.should_stop THEN "out" ELSE "down_timeout"]
    /\ UNCHANGED <<q, sch, child, frame_fifo, sem, sent, now, hist, op, cnt>>

\* down_timeout returned 0: the loop's body runs, then the loop test again
th_down_acquired ==
    /\ th.pc = "down_timeout"
    /\ qcn_send_turn
    /\ th' = [th EXCEPT !.pc = "while"]

\* down_timeout timed out on a semaphore at 0: the empty else branch
th_down_timed_out ==
    /\ th.pc = "down_timeout"
    /\ sem = 0
    /\ down_timeout_expires
    /\ th' = [th EXCEPT !.pc = "while"]
    /\ op' = OpRec("qcn_feedback_sender", "-ETIME", NoSkb, 0)
    /\ UNCHANGED <<q, sch, child, frame_fifo, sem, sent, now, hist, cnt>>

\* out: sock_release, th->sock = NULL, th->tsk = NULL, return 0
th_out ==
    /\ th.pc = "out"
    /\ th' = [th EXCEPT !.pc = "exited", !.tsk = FALSE]
    /\ UNCHANGED <<q, sch, child, frame_fifo, sem, sent, now, hist, op, cnt>>

\* if (q->th.frame_fifo_alloc) kfifo_free(&q->th.frame_fifo);
kfifo_free_called(t) == t.frame_fifo_alloc # 0

\* tbf_destroy up to kthread_stop, which sets the stop flag, wakes the thread
\* and then waits for it to exit
tbf_destroy_stop ==
    /\ th.destroy = "none"
    /\ th' = IF th.tsk
             THEN [th EXCEPT !.should_stop = TRUE, !.destroy = "kthread_stop"]
             ELSE [th EXCEPT !.destroy = "returned", !.freed = kfifo_free_called(th)]
    /\ op' = OpRec("tbf_destroy", "void", NoSkb, 0)
    /\ UNCHANGED <<q, sch, child, frame_fifo, sem, sent, now, hist, cnt>>

\* kthread_stop returns once the thread has exited; tbf_destroy then cancels
\* the watchdog, puts the rate tables and destroys the inner queue
tbf_destroy_return ==
    /\ th.destroy = "kthread_stop"
    /\ th.pc = "exited"
    /\ th' = [th EXCEPT !.destroy = "returned", !.freed = kfifo_free_called(th)]
    /\ sch' = [sch EXCEPT !.watchdog = -1, !.throttled = FALSE]
    /\ UNCHANGED <<q, child, frame_fifo, sem, sent, now, hist, op, cnt>>

\* the ring's mask: kfifo_alloc leaves size - 1 on success, and 0 with a NULL
\* data pointer on failure
kfifo_mask(t) == IF t.ring_ok THEN FRAME_KFIFO_SIZE - 1 ELSE 0

\* kfifo_is_full: kfifo_len > mask
kfifo_is_full(t, fifo) == Len(fifo) > kfifo_mask(t)

\* tbf_enqueue as the sender thread sees it from another CPU, in three steps.
\* First the max_size test and the QCN block up to kfifo_put: the frame is in
\* the ring, the semaphore not yet raised.  On a ring without storage
\* kfifo_put stores through the NULL data pointer: the store faults and the
\* path ends there, or it lands in whatever is mapped at address 0 and the
\* path goes on.
tbf_enqueue_put(skb) ==
    LET len == skb.len
        qlen1 == q.qlen + len
        Fb == tbf_Fb(qlen1, q.qlen_old)
        qntz_Fb == tbf_qntz_Fb(Fb)
        sample1 == q.sample - len
        sampled == sample1 < 0
        generate == sampled /\ qntz_Fb > 0
        qlen_old1 == IF sampled THEN qlen1 ELSE q.qlen_old
        sample2 == IF sampled THEN tbf_sample_refresh(qntz_Fb) ELSE sample1
        emit == generate /\ skb.ip
        put == emit /\ ~kfifo_is_full(th, frame_fifo)
    IN
    /\ th.enq.pc = "idle"
    /\ cnt' = [cnt EXCEPT !.enq = @ + 1]
    /\ IF tbf_oversize(len)
       THEN \* qdisc_reshape_fail(skb, sch)
            /\ sch' = [sch EXCEPT !.drops = @ + 1]
            /\ op' = OpRec("tbf_enqueue", "NET_XMIT_DROP", skb, len)
            /\ UNCHANGED <<q, frame_fifo, th>>
       ELSE /\ q' = [q EXCEPT !.qlen = qlen1, !.qlen_old = qlen_old1, !.sample = sample2]
            /\ \E landed \in IF put /\ ~th.ring_ok THEN BOOLEAN ELSE {TRUE} :
                  /\ frame_fifo' =
                        IF put /\ landed
                        THEN Append(frame_fifo, tbf_frame(skb, qntz_Fb, qlen1, qlen_old1))
                        ELSE frame_fifo
                  /\ th' = [th EXCEPT !.enq = [pc |-> IF ~put THEN "qdisc_enqueue"
                                                      ELSE IF landed THEN "up" ELSE "oops",
                                               skb |-> skb]]
            /\ op' = [OpRec("tbf_enqueue", "kfifo_put", skb, len) EXCEPT
                        !.Fb = Fb, !.qntz_Fb = qntz_Fb, !.sampled = sampled,
                        !.generate = generate,
                        !.put = IF put THEN "pushed" ELSE IF emit THEN "full" ELSE "none"]
            /\ UNCHANGED sch
    /\ UNCHANGED <<child, sem, sent, now, hist>>

\* then up(&q->th.sem_frame_fifo), after a push that succeeded
tbf_enqueue_up ==
    /\ th.enq.pc = "up"
    /\ sem' = sem + 1
    /\ th' = [th EXCEPT !.enq.pc = "qdisc_enqueue"]
    /\ UNCHANGED <<q, sch, child, frame_fifo, sent, now, hist, op, cnt>>

\* then qdisc_enqueue on the inner queue and the TBF's own counters
tbf_enqueue_child ==
    /\ th.enq.pc = "qdisc_enqueue"
    /\ LET skb == th.enq.skb
           r == bfifo_enqueue(child, skb)
       IN  /\ child' = r.child
           /\ IF r.ret # "NET_XMIT_SUCCESS"
              THEN /\ sch' = [sch EXCEPT !.drops = @ + 1]
                   /\ UNCHANGED hist
              ELSE /\ sch' = [sch EXCEPT !.qlen = @ + 1, !.bytes = @ + skb.len,
                                         !.packets = @ + 1]
                   /\ hist' = [hist EXCEPT !.admitted = Append(@, skb.id)]
           /\ op' = OpRec("tbf_enqueue", r.ret, skb, skb.len)
    /\ th' = [th EXCEPT !.enq = [pc |-> "idle", skb |-> NoSkb]]
    /\ UNCHANGED <<q, frame_fifo, sem, sent, now, cnt>>

\* a down_timeout whose result the loop does not test
down_timeout_unchecked(count) == TRUE

\* down_timeout returns 0 when it took the semaphore: its count was positive
down_timeout_acquires(count) == count > 0

\* the sender thread in two steps: down_timeout returned 0 ...
th_down ==
    /\ th.pc = "down_timeout"
    /\ down_timeout_acquires(sem)
    /\ sem' = sem - 1
    /\ th' = [th EXCEPT !.pc = "kfifo_get"]
    /\ UNCHANGED <<q, sch, child, frame_fifo, sent, now, hist, op, cnt>>

\* ... then kfifo_get, and qcn_send_fb for the frame it popped
th_kfifo_get ==
    /\ th.pc = "kfifo_get"
    /\ IF frame_fifo = << >>
       THEN /\ op' = OpRec("qcn_feedback_sender", "err kfifo", NoSkb, 0)
            /\ UNCHANGED <<frame_fifo, sent>>
       ELSE /\ frame_fifo' = Tail(frame_fifo)
            /\ \E ok \in BOOLEAN :
                  /\ sent' = IF ok THEN Append(sent, Head(frame_fifo)) ELSE sent
                  /\ op' = OpRec("qcn_feedback_sender",
                                 IF ok THEN "fb sent" ELSE "err sending", NoSkb, 0)
    /\ th' = [th EXCEPT !.pc = "while"]
    /\ UNCHANGED <<q, sch, child, sem, now, hist, cnt>>

\* struct tbf_sched_data as tbf_init leaves it for configuration cfg
tbf_init_q(cfg) ==
    [limit |-> cfg.limit, buffer |-> cfg.buffer, mtu |-> cfg.mtu,
     max_size |-> tbf_max_size(cfg),
     R_tab |-> cfg.rate,
     P_tab |-> IF HasPeak(cfg) THEN cfg.peakrate ELSE NoTab,
     tokens |-> cfg.buffer, ptokens |-> cfg.mtu, t_c |-> 0,
     qlen |-> 0, qlen_old |-> 0, sample |-> 153600]

\* q->th as tbf_init leaves it when kfifo_alloc succeeded (alloc_ok) or failed:
\* frame_fifo_alloc is set to 1 on the failure branch and stays 0 otherwise;
\* ring_ok says whether the ring has storage, freed whether kfifo_free ran
tbf_init_th(alloc_ok) ==
    [tsk |-> TRUE, pc |-> "while", should_stop |-> FALSE, destroy |-> "none",
     enq |-> [pc |-> "idle", skb |-> NoSkb],
     frame_fifo_alloc |-> IF alloc_ok THEN 0 ELSE 1,
     ring_ok |-> alloc_ok,
     freed |-> FALSE]

\* The rest of the state tbf_init leaves: an empty ring with its semaphore at
\* 0, nothing sent, a TBF Qdisc with zeroed counters and no watchdog armed.
InitQdisc ==
    /\ sch = [qlen |-> 0, bytes |-> 0, packets |-> 0, drops |-> 0, overlimits |-> 0,
              throttled |-> FALSE, watchdog |-> -1]
    /\ frame_fifo = << >>
    /\ sem = 0
    /\ sent = << >>
    /\ now = 0
    /\ hist = [admitted |-> << >>, dropped |-> {}, out |-> << >>]
    /\ op = OpRec("tbf_init", "0", NoSkb, 0)
    /\ cnt = [enq |-> 0, aux |-> 0, burst |-> 0]

\* tbf_init with kfifo_alloc and kthread_create both succeeding
InitRest == InitQdisc /\ th = tbf_init_th(TRUE)

\* The state after tbf_init(cfg): tbf_init's own assignments, then tbf_change
InitFor(cfg) ==
    /\ q = tbf_init_q(cfg)
    /\ child = fifo_create_dflt(cfg.limit)
    /\ InitRest

Init == InitFor(CfgRate)

(***************************************************************************)
(* The scheduler as the host drives it: producers call tbf_enqueue, the    *)
(* transmit path calls tbf_dequeue, the control plane resets and           *)
(* reconfigures, the timer and the sender thread run on their own.         *)
(***************************************************************************)
OpsLeft == cnt.enq + cnt.aux < MaxOps
Enqueue == OpsLeft /\ cnt.enq < MaxEnq /\ \E k \in PktKinds : tbf_enqueue(mkskb(cnt.enq + 1, k[1], k[2]))
Dequeue == OpsLeft /\ cnt.aux < MaxAux /\ tbf_dequeue
Drop == OpsLeft /\ cnt.aux < MaxAux /\ tbf_drop
Reset == OpsLeft /\ cnt.aux < MaxAux /\ tbf_reset
Change == OpsLeft /\ cnt.aux < MaxAux /\ \E cfg \in Configs : tbf_change(cfg)
Clock == OpsLeft /\ cnt.aux < MaxAux /\ Tick

Next ==
    \/ Enqueue
    \/ Dequeue
    \/ Drop
    \/ Reset
    \/ Change
    \/ Clock
    \/ qdisc_watchdog
    \/ qcn_feedback_sender

Spec == Init /\ [][Next]_vars

(***************************************************************************)
(* The QCN computation on its own: the two implementations applied to      *)
(* QCN states drawn from a grid that covers a negative queue length, an    *)
(* unclamped, a zero-clamped and a saturated Fb, and a sample credit about *)
(* to run out.                                                             *)
(***************************************************************************)
QlenGrid == {-60000, 0, 14000, 30000, 100000, 400000}
QlenOldGrid == {0, 100000}
\* queue lengths from far below zero to far above the saturation point, for
\* which (Q_EQ - qlen) - W * (qlen - qlen_old) still fits an int
FbGrid == {-268435456, -170001, -60000, 0, 33792, 34000, 90000, 203792, 204000, 268435456}
SampleGrid == {153600, 1000}

InitQcn ==
    \E a \in QlenGrid, b \in QlenOldGrid, c \in SampleGrid :
        /\ q = [tbf_init_q(CfgRate) EXCEPT !.qlen = a, !.qlen_old = b, !.sample = c]
        /\ child = [fifo_create_dflt(CfgRate.limit) EXCEPT
                        !.qcn_qlen = a, !.qcn_qlen_old = b, !.sample = c]
        /\ InitRest

QcnTbf ==
    /\ cnt.enq + cnt.burst < MaxQcn
    /\ \E k \in PktKinds : tbf_enqueue(mkskb(cnt.enq + 1, k[1], k[2]))

QcnFifo ==
    /\ cnt.enq + cnt.burst < MaxQcn
    /\ \E k \in PktKinds, ok \in BOOLEAN :
          qcn_algorithm(mkskb(cnt.burst + 1, k[1], k[2]), ok)

NextQcn == QcnTbf \/ QcnFifo

SpecQcn == InitQcn /\ [][NextQcn]_vars

(***************************************************************************)
(* The shaper on its own: a TBF with both buckets configured, offered      *)
(* packets that one bucket or the other cannot pay for, with the clock     *)
(* advancing by a unit, up to the watchdog's expiry, or by a long idle     *)
(* period.                                                                 *)
(***************************************************************************)
ShapeKinds == {<<1500, TRUE>>, <<60000, TRUE>>}
ShapeConfigs == {CfgShape, CfgRate, CfgKeep, CfgNoParms, CfgSlowPeak, CfgTiny}

InitShape == InitFor(CfgShape)

ShapeEnqueue ==
    /\ cnt.enq < MaxShapeEnq
    /\ \E k \in ShapeKinds : tbf_enqueue(mkskb(cnt.enq + 1, k[1], k[2]))
ShapeDequeue == cnt.aux < MaxShape /\ tbf_dequeue
ShapeReset == cnt.aux < MaxShape /\ tbf_reset
ShapeChange == cnt.aux < MaxShape /\ \E cfg \in ShapeConfigs : tbf_change(cfg)
ShapeClock == cnt.aux < MaxShape /\ Tick
ShapeIdle ==
    /\ cnt.aux < MaxShape
    /\ cnt' = [cnt EXCEPT !.aux = @ + 1]
    /\ now' = now + IdleGap
    /\ op' = OpRec("tick", "void", NoSkb, 0)
    /\ UNCHANGED <<th, q, sch, child, frame_fifo, sem, sent, hist>>

NextShape ==
    \/ ShapeEnqueue
    \/ ShapeDequeue
    \/ ShapeReset
    \/ ShapeChange
    \/ ShapeClock
    \/ ShapeIdle
    \/ qdisc_watchdog

SpecShape == InitShape /\ [][NextShape]_vars

(***************************************************************************)
(* The shaper between two reconfigurations: the configuration of InitShape *)
(* stays in force, packets arrive, the transmit path asks for the head     *)
(* packet, the clock advances and the watchdog timer fires.                *)
(***************************************************************************)
WatchDequeue == cnt.aux < MaxShape /\ tbf_dequeue
WatchClock == cnt.aux < MaxShape /\ Tick

NextWatch ==
    \/ ShapeEnqueue
    \/ WatchDequeue
    \/ WatchClock
    \/ ShapeIdle
    \/ qdisc_watchdog

SpecWatch == InitShape /\ [][NextWatch]_vars

(***************************************************************************)
(* The head-drop packet FIFO (pfifo_head_drop_qdisc_ops) on its own, held  *)
(* in child: fifo_init gives it a limit counted in packets, producers      *)
(* offer packets, the transmit path dequeues, the control plane resets.    *)
(***************************************************************************)
PfifoLimits == {1, 2, 4}
PfifoLens == {1500, 60000}

InitPfifo ==
    /\ \E limit \in PfifoLimits : child = fifo_create_dflt(limit)
    /\ q = tbf_init_q(CfgRate)
    /\ InitRest

PfifoEnqueue ==
    /\ cnt.enq < MaxPfifo
    /\ \E len \in PfifoLens :
          LET skb == mkskb(cnt.enq + 1, len, TRUE)
              r == pfifo_tail_enqueue(child, skb)
          IN  /\ child' = r.child
              /\ hist' = [hist EXCEPT !.admitted = Append(@, skb.id),
                                      !.dropped = IF r.old # 0 THEN @ \cup {r.old} ELSE @]
              /\ op' = OpRec("pfifo_tail_enqueue", r.ret, skb, len)
    /\ cnt' = [cnt EXCEPT !.enq = @ + 1]
    /\ UNCHANGED <<th, q, sch, frame_fifo, sem, sent, now>>

PfifoDequeue ==
    /\ LET r == qdisc_dequeue_head(child)
       IN  /\ child' = r.child
           /\ hist' = IF r.skb.id # 0 THEN [hist EXCEPT !.out = Append(@, r.skb.id)]
                                      ELSE hist
           /\ op' = [OpRec("qdisc_dequeue_head", IF r.skb.id # 0 THEN "skb" ELSE "NULL",
                           NoSkb, r.skb.len) EXCEPT !.id = r.skb.id]
    /\ UNCHANGED <<th, q, sch, frame_fifo, sem, sent, now, cnt>>

PfifoReset ==
    /\ child' = qdisc_reset_queue(child)
    /\ hist' = [hist EXCEPT !.dropped = @ \cup Ids(child.skbs)]
    /\ op' = OpRec("qdisc_reset_queue", "void", NoSkb, 0)
    /\ UNCHANGED <<th, q, sch, frame_fifo, sem, sent, now, cnt>>

NextPfifo == PfifoEnqueue \/ PfifoDequeue \/ PfifoReset

SpecPfifo == InitPfifo /\ [][NextPfifo]_vars

(***************************************************************************)
(* The feedback ring under sustained congestion: 60000-byte IPv4 packets   *)
(* offered back to back, every third one a sampling instant that pushes a  *)
(* frame, while the sender thread pops frames at its own pace.             *)
(***************************************************************************)
RingEnqueue == cnt.enq < RingLen /\ tbf_enqueue(mkskb(cnt.enq + 1, 60000, TRUE))
RingSender == Len(sent) < MaxSent /\ qcn_feedback_sender

NextRing == RingEnqueue \/ RingSender

SpecRing == Init /\ [][NextRing]_vars

(***************************************************************************)
(* The sender thread step by step, and tbf_destroy stopping it: packets    *)
(* are offered until tbf_destroy starts, the thread runs its loop, and the *)
(* host schedules a runnable thread and fires an expired timeout sooner or *)
(* later (weak fairness on the thread's steps and on kthread_stop's        *)
(* return).                                                                *)
(***************************************************************************)
StopEnqueue ==
    /\ th.destroy = "none"
    /\ cnt.enq < MaxStop
    /\ tbf_enqueue(mkskb(cnt.enq + 1, 60000, TRUE))

ThreadStep == th_while \/ th_down_acquired \/ th_down_timed_out \/ th_out

NextStop ==
    \/ StopEnqueue
    \/ th_while
    \/ th_down_acquired
    \/ th_down_timed_out
    \/ th_out
    \/ tbf_destroy_stop
    \/ tbf_destroy_return

SpecStop ==
    Init /\ [][NextStop]_vars /\ WF_vars(ThreadStep) /\ WF_vars(tbf_destroy_return)

(***************************************************************************)
(* The admission path and the sender thread on two CPUs: tbf_enqueue runs  *)
(* to kfifo_put, to up and to the inner queue in separate steps, the       *)
(* thread takes the semaphore and pops the ring in separate steps, and the *)
(* two interleave freely.                                                  *)
(***************************************************************************)
SemKinds == {<<60000, TRUE>>, <<60000, FALSE>>}

SemEnqueue ==
    /\ cnt.enq < MaxSem
    /\ \E k \in SemKinds : tbf_enqueue_put(mkskb(cnt.enq + 1, k[1], k[2]))

NextSem ==
    \/ SemEnqueue
    \/ tbf_enqueue_up
    \/ tbf_enqueue_child
    \/ th_while
    \/ th_down
    \/ th_kfifo_get
    \/ th_down_timed_out

SpecSem == Init /\ [][NextSem]_vars

(***************************************************************************)
(* The life of the feedback ring: tbf_init with kfifo_alloc succeeding or  *)
(* failing, packets offered and the sender thread running until            *)
(* tbf_destroy, then tbf_destroy to its end.                               *)
(***************************************************************************)
InitLife ==
    /\ q = tbf_init_q(CfgRate)
    /\ child = fifo_create_dflt(CfgRate.limit)
    /\ InitQdisc
    /\ \E alloc_ok \in BOOLEAN : th = tbf_init_th(alloc_ok)

LifeEnqueue ==
    /\ th.destroy = "none"
    /\ cnt.enq < MaxLife
    /\ tbf_enqueue_put(mkskb(cnt.enq + 1, 60000, TRUE))

NextLife ==
    \/ LifeEnqueue
    \/ tbf_enqueue_up
    \/ tbf_enqueue_child
    \/ th_while
    \/ th_down
    \/ th_kfifo_get
    \/ th_down_timed_out
    \/ th_out
    \/ tbf_destroy_stop
    \/ tbf_destroy_return

SpecLife == InitLife /\ [][NextLife]_vars

(***************************************************************************)
(* The burst of section 8, scenario 2: 1500-byte IPv4 packets admitted     *)
(* back to back on fresh state, with no dequeue in between, through        *)
(* tbf_enqueue and through qcn_algorithm.                                  *)
(***************************************************************************)
BurstTbf == cnt.enq < BurstLen /\ tbf_enqueue(mkskb(cnt.enq + 1, 1500, TRUE))

BurstFifo ==
    /\ cnt.burst < BurstLen
    /\ \E ok \in BOOLEAN : qcn_algorithm(mkskb(cnt.burst + 1, 1500, TRUE), ok)

NextBurst == BurstTbf \/ BurstFifo

InitBurst == InitFor(CfgBurst)

SpecBurst == InitBurst /\ [][NextBurst]_vars

(***************************************************************************)
(* Properties                                                              *)
(***************************************************************************)
\* the packets the inner queue admitted and no drop, reset or change removed
Kept == SelectSeq(hist.admitted, LAMBDA id : id \notin hist.dropped)

\* a step of tbf_enqueue whose packet passed the max_size test
EnqueueStep == op'.name = "tbf_enqueue" /\ cnt'.enq = cnt.enq + 1
AdmissionStep == EnqueueStep /\ op'.len <= q.max_size

\* Fb of section 4.2: (Q_EQ - qlen) - W * (qlen - qlen_old), saturated below at
\* -Q_EQ * (2W + 1) and above at 0
ClaimFb(qlen, qlen_old, Q_EQ, W) ==
    LET low == 0 - (Q_EQ * ((2 * W) + 1))
        raw == (Q_EQ - qlen) - (W * (qlen - qlen_old))
    IN  Max(low, Min(raw, 0))

\* ((uint32)(-Fb) >> 13) & 0x3F for a saturated Fb, which is never positive
ClaimQntz(Fb) == ((0 - Fb) \div 8192) % 64

\* the mark table of section 4.2, indices 0..7
ClaimMark == <<153600, 76800, 51200, 38400, 30720, 25600, 22016, 18944>>

\* the frame tbf_enqueue pushed last
LastFrame == frame_fifo[Len(frame_fifo)]

\* C1: after any sequence of TBF enqueue, dequeue, drop, reset and change,
\* qlen equals the inner queue's backlog_bytes, and backlog_bytes equals the
\* sum of the lengths of the resident packets.
C1_QlenIsBacklog ==
    /\ q.qlen = child.backlog
    /\ child.backlog = SumLen(child.skbs)

\* C2: a successful dequeue removes the head packet: the packet it returned is
\* no longer resident, no packet is returned twice, and no packet is at once
\* in the inner queue, with the caller, or on the free path.
C2_DequeueRemoves ==
    /\ (op.name = "tbf_dequeue" /\ op.ret = "skb") => op.id \notin Ids(child.skbs)
    /\ \A i, j \in 1..Len(hist.out) : hist.out[i] = hist.out[j] => i = j
    /\ Ids(child.skbs) \cap Range(hist.out) = {}
    /\ Ids(child.skbs) \cap hist.dropped = {}
    /\ Range(hist.out) \cap hist.dropped = {}

\* C3: dequeue never reorders: the i-th packet returned by dequeue is the i-th
\* packet that was admitted and not dropped.
C3_NoReorder ==
    \A i \in 1..Len(hist.out) : i <= Len(Kept) /\ hist.out[i] = Kept[i]

\* C5: on an admission that takes sample_credit below zero, qlen_old becomes
\* the current qlen and sample_credit becomes mark_table[qntz_Fb >> 3]; on any
\* other admission qlen_old is unchanged and sample_credit just loses L.
C5_SampleRefresh ==
    [][AdmissionStep =>
        LET L == op'.len
            qntz == ClaimQntz(ClaimFb(q.qlen + L, q.qlen_old, QCN_Q_EQ, QCN_W))
        IN  IF q.sample - L < 0
            THEN q'.qlen_old = q'.qlen /\ q'.sample = ClaimMark[(qntz \div 8) + 1]
            ELSE q'.qlen_old = q.qlen_old /\ q'.sample = q.sample - L]_vars

\* C7: a packet the inner queue rejects is not counted by the congestion
\* point: qlen, qlen_old and sample_credit are as before the call and no
\* feedback frame was pushed.
C7_RejectedNotCounted ==
    [][(AdmissionStep /\ op'.ret # "NET_XMIT_SUCCESS") =>
        /\ q'.qlen = q.qlen
        /\ q'.qlen_old = q.qlen_old
        /\ q'.sample = q.sample
        /\ frame_fifo' = frame_fifo
        /\ sem' = sem]_vars

\* C8: tbf_enqueue of a packet with len > max_size returns the overlimit drop
\* and leaves qlen, qlen_old, sample_credit, the inner queue, the feedback
\* ring and the packet and byte counters unchanged.
C8_OversizeUntouched ==
    [][(EnqueueStep /\ op'.len > q.max_size) =>
        /\ op'.ret = "NET_XMIT_DROP"
        /\ q' = q
        /\ child' = child
        /\ frame_fifo' = frame_fifo
        /\ sem' = sem
        /\ sch'.qlen = sch.qlen
        /\ sch'.bytes = sch.bytes
        /\ sch'.packets = sch.packets]_vars

\* C8's case: an oversize packet was just refused by a TBF that holds packets
\* and has counted bytes
C8_Witness ==
    /\ op.name = "tbf_enqueue"
    /\ op.len > q.max_size
    /\ op.ret = "NET_XMIT_DROP"
    /\ q.qlen > 0
    /\ child.skbs # << >>

\* a TBF drop that removed a packet, a TBF dequeue that returned one
DropStep == op'.name = "tbf_drop" /\ cnt'.aux = cnt.aux + 1 /\ op'.ret = "len"
GrantStep == op'.name = "tbf_dequeue" /\ cnt'.aux = cnt.aux + 1 /\ op'.ret = "skb"

\* C9: every TBF drop that removes a packet of length L and every TBF dequeue
\* that returns one decreases the TBF's qlen by exactly L, and qlen decreases
\* in no other way.
C9_QlenDecrease ==
    [][/\ DropStep => q'.qlen = q.qlen - op'.len
       /\ GrantStep => q'.qlen = q.qlen - op'.len
       /\ ~(DropStep \/ GrantStep) => q'.qlen >= q.qlen]_vars

\* C10: after tbf_reset the inner queue is empty, packet count and backlog are
\* 0, the QCN state is initial, both buckets are full and the watchdog is
\* cancelled.
C10_ResetState ==
    op.name = "tbf_reset" =>
        /\ child.skbs = << >>
        /\ child.backlog = 0
        /\ sch.qlen = 0
        /\ q.qlen = 0
        /\ q.qlen_old = 0
        /\ q.sample = 153600
        /\ q.tokens = q.buffer
        /\ q.ptokens = q.mtu
        /\ sch.watchdog = -1
        /\ ~sch.throttled

\* a step of qcn_algorithm
FifoQcnStep == op'.name = "qcn_algorithm" /\ cnt'.burst = cnt.burst + 1

\* C4: on every admission of a packet of length L, qlen becomes qlen + L, Fb is
\* (Q_EQ - qlen) - W * (qlen - qlen_old) on the updated qlen saturated to
\* [-Q_EQ * (2W + 1), 0], qntz_Fb is ((uint32)(-Fb) >> 13) & 0x3F and so lies
\* in 0..63, and a frame's Fb field carries that 6-bit value, in tbf_enqueue
\* and in qcn_algorithm alike.
C4_FbQuantized ==
    [][/\ AdmissionStep =>
            LET Fb == ClaimFb(q.qlen + op'.len, q.qlen_old, QCN_Q_EQ, QCN_W)
            IN  /\ q'.qlen = q.qlen + op'.len
                /\ op'.Fb = Fb
                /\ op'.qntz_Fb = ClaimQntz(Fb)
                /\ op'.qntz_Fb \in 0..63
                /\ op'.put = "ok" =>
                      ntohl(frame_fifo'[Len(frame_fifo')].Fb) = ClaimQntz(Fb)
       /\ FifoQcnStep =>
            LET Fb == ClaimFb(child.qcn_qlen + op'.len, child.qcn_qlen_old,
                              FIFO_QCN_Q_EQ, FIFO_QCN_W)
            IN  /\ child'.qcn_qlen = child.qcn_qlen + op'.len
                /\ op'.Fb = Fb
                /\ op'.qntz_Fb = ClaimQntz(Fb)
                /\ op'.qntz_Fb \in 0..63
                /\ op'.put = "ok" => ntohl(sent'[Len(sent')].Fb) = ClaimQntz(Fb)]_vars

\* C4's case: tbf_enqueue has just pushed a frame whose Fb is neither clamped
\* to 0 nor saturated, after qcn_algorithm transmitted one of its own
C4_Witness ==
    /\ op.name = "tbf_enqueue"
    /\ op.put = "ok"
    /\ op.qntz_Fb \in 1..19
    /\ ntohl(LastFrame.Fb) = op.qntz_Fb
    /\ sent # << >>

BfifoEnqueueStep == EnqueueStep /\ u_le(op'.len, q.max_size)

DequeueStep == op'.name = "tbf_dequeue" /\ cnt'.aux = cnt.aux + 1
HeadStep == DequeueStep /\ child.skbs # << >>

\* the two balances of section 4.3 for a head packet of length len
ClaimToks(len) ==
    Min(Min(now - q.t_c, q.buffer) + q.tokens, q.buffer) - L2T(q.R_tab, len)
ClaimPtoks(len) ==
    IF q.P_tab = NoTab THEN 0
    ELSE Min(Min(now - q.t_c, q.buffer) + q.ptokens, q.mtu) - L2T(q.P_tab, len)

\* C12: tbf_dequeue with a non-empty inner queue returns the head packet if
\* and only if toks >= 0 and ptoks >= 0 (ptoks being 0 without a peak rate),
\* and on a grant commits t_c = now, tokens = toks, ptokens = ptoks and clears
\* the THROTTLED flag.
C12_GrantRule ==
    [][HeadStep =>
          LET toks == ClaimToks(op'.len)
              ptoks == ClaimPtoks(op'.len)
          IN  /\ (op'.ret = "skb") <=> (toks >= 0 /\ ptoks >= 0)
              /\ op'.ret = "skb" =>
                    /\ op'.id = Head(child.skbs).id
                    /\ q'.t_c = now
                    /\ q'.tokens = toks
                    /\ q'.ptokens = ptoks
                    /\ ~sch'.throttled]_vars

\* C12's case: with a peak rate configured, a dequeue was refused, the clock
\* advanced, and the next dequeue was granted while the flag was still set
\* (the watchdog that would have cleared it is still armed)
C12_Witness ==
    /\ op.name = "tbf_dequeue"
    /\ op.ret = "skb"
    /\ q.P_tab # NoTab
    /\ sch.overlimits > 0
    /\ sch.watchdog >= 0
    /\ ~sch.throttled
    /\ q.t_c = now
    /\ now > 0

\* C13: in every reachable state 0 <= tokens <= buffer, and with a peak rate
\* configured 0 <= ptokens <= mtu; and t_c never decreases, the clock being
\* non-decreasing.
C13_BucketBounds ==
    /\ [](/\ 0 <= q.tokens
          /\ q.tokens <= q.buffer
          /\ q.P_tab # NoTab => (0 <= q.ptokens /\ q.ptokens <= q.mtu))
    /\ [][q'.t_c >= q.t_c /\ now' >= now]_vars

\* C13's case: with a peak rate configured, a dequeue granted after the clock
\* had advanced left both buckets partly filled and moved t_c forward
C13_Witness ==
    /\ op.name = "tbf_dequeue"
    /\ op.ret = "skb"
    /\ q.P_tab # NoTab
    /\ 0 < q.tokens
    /\ q.tokens < q.buffer
    /\ q.ptokens < q.mtu
    /\ q.t_c > 0

\* a step of pfifo_tail_enqueue, a step of the packet FIFO's dequeue
PfifoEnqueueStep == op'.name = "pfifo_tail_enqueue" /\ cnt'.enq = cnt.enq + 1
PfifoDequeueStep == op'.name = "qdisc_dequeue_head" /\ child.skbs # << >>

FullStep == EnqueueStep /\ op'.put = "full"

\* C15: the feedback ring never holds more than 32 frames; a push on a full
\* ring leaves the ring and the semaphore unchanged, discards the frame and
\* records the loss in a counter of the scheduler (qstats, the only loss
\* counters it has, move by one more than the packet's own outcome accounts
\* for).
C15_RingFull ==
    /\ [](Len(frame_fifo) <= FRAME_KFIFO_SIZE /\ sem <= FRAME_KFIFO_SIZE)
    /\ [][FullStep =>
            /\ frame_fifo' = frame_fifo
            /\ sem' = sem
            /\ (sch'.drops - sch.drops) + (sch'.overlimits - sch.overlimits)
                 = 1 + (IF op'.ret = "NET_XMIT_DROP" THEN 1 ELSE 0)]_vars

\* the last operation was a tbf_enqueue whose sampling instant, with
\* qntz_Fb > 0, fell on a packet that is not IPv4, so that no frame was built
PendingAfterNonIp ==
    op.name = "tbf_enqueue" /\ op.generate /\ ~op.ip /\ op.put = "none"

\* C16: a sampling instant with qntz_Fb > 0 on a non-IPv4 packet emits no
\* frame, and the feedback decision is kept: the next IPv4 packet admitted
\* hands a feedback frame to the ring.
C16_PendingKept ==
    [][/\ (AdmissionStep /\ op'.generate /\ ~op'.ip) => frame_fifo' = frame_fifo
       /\ (PendingAfterNonIp /\ AdmissionStep /\ op'.ip) =>
             (op'.put # "none" /\ (op'.put = "ok" => Len(frame_fifo') = Len(frame_fifo) + 1))]_vars

\* C17: once tbf_destroy has asked the sender thread to stop, the thread
\* leaves its loop and exits, whether it was waiting on the semaphore or had
\* frames pending, and tbf_destroy does not return before it has exited.
C17_StopTerminates ==
    /\ th.should_stop ~> (th.pc = "exited")
    /\ [](th.destroy = "returned" => th.pc = "exited")
    /\ (th.destroy = "kthread_stop") ~> (th.destroy = "returned")

\* C17's case: tbf_destroy has returned, the thread having exited with a
\* frame still in the ring and the semaphore still raised
C17_Witness ==
    /\ th.destroy = "returned"
    /\ th.pc = "exited"
    /\ ~th.tsk
    /\ frame_fifo # << >>
    /\ sem > 0

\* C18: the QCN queue length never goes negative, neither the TBF's qlen nor
\* the byte FIFO's own qcn_qlen, in any state reached by enqueue, dequeue,
\* drop and reset.
C18_QlenNonNegative ==
    /\ q.qlen >= 0
    /\ child.qcn_qlen >= 0

\* C19: a tbf_dequeue that finds a head packet it cannot pay for returns
\* nothing, arms the watchdog for exactly now + max(-toks, -ptoks), a time
\* after now, adds one to overlimits, and leaves tokens, ptokens, t_c, qlen
\* and the inner queue as they were; on an empty inner queue it returns
\* nothing and changes no state at all.
C19_Throttle ==
    [][/\ (HeadStep /\ op'.ret = "NULL") =>
            LET toks == ClaimToks(op'.len)
                ptoks == ClaimPtoks(op'.len)
                wait == IF (0 - toks) > (0 - ptoks) THEN 0 - toks ELSE 0 - ptoks
            IN  /\ toks < 0 \/ ptoks < 0
                /\ sch'.watchdog = now + wait
                /\ sch'.watchdog > now
                /\ sch'.overlimits = sch.overlimits + 1
                /\ q' = q
                /\ child' = child
                /\ sch'.qlen = sch.qlen
                /\ hist' = hist
       /\ (DequeueStep /\ child.skbs = << >>) =>
            /\ op'.ret = "NULL"
            /\ UNCHANGED <<q, sch, child, frame_fifo, sem, sent, now, hist>>]_vars

\* C19's case: the rate bucket could pay for the head packet, the peak bucket
\* could not, and the dequeue armed the watchdog
C19_Witness ==
    /\ op.name = "tbf_dequeue"
    /\ op.ret = "NULL"
    /\ op.id # 0
    /\ op.toks >= 0
    /\ op.ptoks < 0
    /\ sch.throttled
    /\ sch.watchdog = now - op.ptoks
    /\ sch.overlimits = 1

\* a step of tbf_change
ChangeStep == op'.name = "tbf_change" /\ cnt'.aux = cnt.aux + 1

\* C20: a successful tbf_change refills both buckets; when it replaced the
\* inner queue (limit > 0) it also re-initializes the QCN state (qlen = 0,
\* qlen_old = 0, sample = 153600), so that qlen matches the empty new queue,
\* and when it kept the inner queue it leaves the QCN state as it was; a
\* change that fails validation modifies no scheduler state.
C20_ChangeQcn ==
    [][ChangeStep =>
          IF op'.ret = "0"
          THEN /\ q'.tokens = q'.buffer
               /\ q'.ptokens = q'.mtu
               /\ IF q'.limit > 0
                  THEN /\ child'.skbs = << >>
                       /\ child'.backlog = 0
                       /\ q'.qlen = 0
                       /\ q'.qlen_old = 0
                       /\ q'.sample = 153600
                  ELSE /\ child' = child
                       /\ q'.qlen = q.qlen
                       /\ q'.qlen_old = q.qlen_old
                       /\ q'.sample = q.sample
          ELSE UNCHANGED <<q, sch, child, frame_fifo, sem, sent, now, hist>>]_vars

C22_SemInStep ==
    /\ Len(frame_fifo) = sem + (IF th.enq.pc = "up" THEN 1 ELSE 0)
                              + (IF th.pc = "kfifo_get" THEN 1 ELSE 0)
    /\ sem >= 0
    /\ sem <= Len(frame_fifo)
    /\ th.pc = "kfifo_get" => frame_fifo # << >>
    /\ op.ret # "err kfifo"

\* C22's case: the thread has acquired the semaphore for the first frame and
\* not yet popped it, while a tbf_enqueue has pushed a second frame and not
\* yet raised the semaphore
C22_Witness ==
    /\ th.pc = "kfifo_get"
    /\ th.enq.pc = "up"
    /\ sem = 0
    /\ Len(frame_fifo) = 2

\* C23: the TBF's own packet counter sch->q.qlen equals the number of
\* packets resident in the inner queue after any sequence of enqueue,
\* dequeue, drop and reset, and never wraps below zero.
C23_PacketCount ==
    /\ sch.qlen = Len(child.skbs)
    /\ sch.qlen >= 0

C25_RingLifecycle ==
    /\ th.destroy = "returned" => (th.freed <=> th.ring_ok)
    /\ ~th.ring_ok =>
          /\ ~th.freed
          /\ frame_fifo = << >>
          /\ th.enq.pc \notin {"up", "oops"}
          /\ th.pc # "kfifo_get"

====
